---- MODULE Spec2Model ----
(***************************************************************************)
(* Model of the LifeScribe popup controller (src/popup-system.js): one     *)
(* LifeScribePopupSystem instance, the document it renders into, the       *)
(* remote popup API and the browser's timers.                              *)
(*                                                                         *)
(* Time is counted in milliseconds.  A timer holds the time left until it  *)
(* is due; Tick lets time pass, never beyond a timer that is due, and a    *)
(* due timer's callback runs as a step of its own (FireTimer).             *)
(* An await of a network call ends one step; the code after it runs in     *)
(* the step of the response.                                               *)
(***************************************************************************)
EXTENDS Integers, Sequences, FiniteSets, TLC

\* ---------------------------------------------------------------- bounds
\* close events posted per page load: the user's close actions stop there
MaxCloseActions == 2
\* times a trigger fires again after it has fired (SpecRetrigger only)
MaxRetriggers == 1
\* the stopwatch of the trigger's timer stops counting here
ElapsedCap == 5200
\* the stopwatch since the first close action stops counting here
CloseCap == 500
\* the stopwatch since a success response was handled stops counting here
SuccessCap == 3300
\* length of the strings isValidEmail is applied to (SpecEmail)
MaxEmailLen == 6
\* calls of handleFormSubmission per page load (SpecForm)
MaxSubmits == 2
\* page loads of the tab after the first (SpecSession)
MaxReloads == 1

\* ------------------------------------------------------ program constants
DefaultDelayMs == 5000
DefaultScrollPercent == 50
PageLoadDelayMs == 100
ExitTransitionMs == 300
SwipeThresholdPx == 100
AutoCloseMs == 3000

\* ------------------------------------------------------------ value sets
\* JavaScript's undefined / null for a number
Undefined == 0 - 1

\* durations by which Tick lets time pass when no timer is due sooner
TickSteps == {300}

PopupIds == {1, 2}
TriggerTypes == {"time", "scroll", "exit-intent", "page-load", "hover"}
\* trigger_value of a config: absent, 0, or a number (ms for time, % for scroll)
TriggerValues == {Undefined, 0, 100}
\* which of the elements the controller looks up the html_template contains
Templates == { {"close", "form", "submit", "content"}, {} }

\* the tokens of navigator.userAgent that getDeviceType tests, for three browsers
UserAgents == { {}, {"iPad", "Mobile"}, {"iPhone", "Mobile"} }
\* document.documentElement.scrollHeight - window.innerHeight
ScrollRanges == {0, 4}
\* the page loads modelled: the touch browsers on a page that scrolls, the desktop
\* browser on one that does not
PageLoads == ((UserAgents \ {{}}) \X {4}) \cup { <<{}, 0>> }
\* clientY of touchstart, touchmove and mouseleave events
TouchStartYs == {201}
TouchMoveYs == {100, 101}
\* the elements a click inside the overlay can have as its target
ClickTargets == {"overlay", "content", "input"}
MouseYs == {0 - 1, 0, 5}

NullConfig == [id |-> 0, trigger_type |-> "null", trigger_value |-> Undefined,
               template |-> {}]
\* the template with every element the controller looks up
FullTemplate == {"close", "form", "submit", "content"}
\* the configs the server sends for popup id; a trigger_value is sent with the
\* trigger types that read one, and the template without elements with the
\* page-load trigger (no trigger reads the template)
Configs(id) ==
    [id : {id}, trigger_type : {"time", "scroll"},
     trigger_value : TriggerValues, template : {FullTemplate}]
    \cup [id : {id}, trigger_type : TriggerTypes \ {"time", "scroll"},
          trigger_value : {Undefined}, template : {FullTemplate}]
    \cup [id : {id}, trigger_type : {"page-load"},
          trigger_value : {Undefined}, template : Templates]

NullPopup == [id |-> 0, element |-> 0]

\* what the GET /api/popup/active call can come back with
PopupLists == { <<>>, <<2, 1>> }
ActiveResponses ==
    [kind : {"neterr", "parseerr"}, success : {FALSE}, hasPopups : {FALSE},
     popups : {<<>>}]
    \cup [kind : {"json"}, success : BOOLEAN, hasPopups : {TRUE}, popups : PopupLists]
    \cup [kind : {"json"}, success : BOOLEAN, hasPopups : {FALSE}, popups : {<<>>}]

\* what the GET /api/popup/config/<id> call can come back with
ConfigResponses(id) ==
    [kind : {"neterr", "parseerr"}, success : {FALSE}, config : {NullConfig}]
    \cup [kind : {"json"}, success : BOOLEAN, config : Configs(id) \cup {NullConfig}]

Min(a, b) == IF a <= b THEN a ELSE b

\* the texts of the form
OriginalLabel == "Get My Code"
BusyLabel == "Processing..."
RetryLabel == "Try Again"
RequiredText == "Email is required"
InvalidText == "Please enter a valid email address"
FailedText == "Submission failed. Please try again."
NetworkText == "Network error. Please try again."

\* the characters of an email input: a letter, '@', '.' and a space
Alphabet == {"a", "@", ".", " "}
\* what the user types into the email input: nothing, "a@a", "a a@a.a", "a@a.aa"
FormEmails == { <<>>, <<"a", "@", "a">>, <<"a", " ", "a", "@", "a", ".", "a">>,
                <<"a", "@", "a", ".", "a", "a">> }

\* what the POST /api/popup/submit call can come back with; an error of "" stands
\* for a body without the field, and so does a discount_code of ""
SubmitResponses ==
    [kind : {"neterr", "parseerr"}, success : {FALSE}, error : {""},
     discount_code : {""}]
    \cup [kind : {"json"}, success : {FALSE}, error : {"", "Email already used"},
          discount_code : {""}]
    \cup [kind : {"json"}, success : {TRUE}, error : {""},
          discount_code : {"", "SAVE10"}]

\* the values of the item 'lifescribe_popup_session': 'session_<time>_<random>'
SessionTokens == {1, 2}

\* window.location.hostname is a string of pieces: labels with dots between them
MaxHostLabels == 3
HostLabels == {"localhost", "127.0.0.1", "app", "example"}
HostsOf(n) ==
    { h \in [1..(2 * n - 1) -> HostLabels \cup {"."}] :
        \A i \in 1..(2 * n - 1) : (i % 2 = 0) <=> (h[i] = ".") }
Hostnames == UNION { HostsOf(n) : n \in 1..MaxHostLabels }
\* the host of the pages of the other specifications
PageHost == <<"example">>

\* the values of this.apiBase
NoApiBase == [origin |-> "unset", host |-> <<>>]
LocalDevOrigin == [origin |-> "http://localhost:3000", host |-> <<>>]
PageOrigin(host) == [origin |-> "window.location.origin", host |-> host]

\* a template or a config value: a string of pieces, or not set
AbsentText == [defined |-> FALSE, text |-> <<>>]
Text(s) == [defined |-> TRUE, text |-> s]
\* htmlTemplate before processTemplate has run
NotProcessed == [done |-> FALSE, text |-> <<>>]

\* the placeholders of processTemplate in the order of its replace calls, each with
\* the config field it reads
Placeholders ==
    << <<"{{popup_id}}", "id">>,
       <<"{{title}}", "title">>,
       <<"{{subtitle}}", "subtitle">>,
       <<"{{email_placeholder}}", "email_placeholder">>,
       <<"{{submit_button_text}}", "submit_button_text">>,
       <<"{{privacy_text}}", "privacy_text">>,
       <<"{{background_color}}", "background_color">>,
       <<"{{text_color}}", "text_color">>,
       <<"{{accent_color}}", "accent_color">>,
       <<"{{border_radius}}", "border_radius">> >>
KnownPlaceholders == { Placeholders[k][1] : k \in 1..Len(Placeholders) }
TemplateFields == { Placeholders[k][2] : k \in 1..Len(Placeholders) }

\* the text after || in each replace call; config.id has none and is written as
\* String(undefined) when it is not set
DefaultText(field) ==
    CASE field = "id" -> <<"undefined">>
      [] field = "title" -> <<"Join Our Community">>
      [] field = "subtitle" -> <<"Get exclusive updates and special offers">>
      [] field = "email_placeholder" -> <<"Enter your email address">>
      [] field = "submit_button_text" -> <<"Get My Discount">>
      [] field = "privacy_text" -> <<"We respect your privacy. Unsubscribe at any time.">>
      [] field = "background_color" -> <<"#F9F3E9">>
      [] field = "text_color" -> <<"#1A5F7A">>
      [] field = "accent_color" -> <<"#D4AC0D">>
      [] field = "border_radius" -> <<"8">>

\* the templates and configs processTemplate is applied to
MaxTemplatePieces == 2
TemplatePieces == {"{{popup_id}}", "{{title}}", "{{subtitle}}", "{{border_radius}}", "<h2>"}
TemplateTexts ==
    {AbsentText} \cup
    { Text(s) : s \in UNION { [1..n -> TemplatePieces] : n \in 0..MaxTemplatePieces } }
TitleValues ==
    { AbsentText, Text(<<>>), Text(<<"Welcome">>), Text(<<"{{popup_id}}">>),
      Text(<<"$&">>), Text(<<"$$", "5 off">>) }
SubtitleValues == { AbsentText, Text(<<"{{title}}">>) }
TemplateConfigs ==
    { [f \in TemplateFields |->
          CASE f = "id" -> Text(<<"2">>)
            [] f = "title" -> t
            [] f = "subtitle" -> s
            [] OTHER -> AbsentText] : t \in TitleValues, s \in SubtitleValues }

VARIABLES
    \* the browser
    userAgent,        \* tokens of navigator.userAgent
    scrollRange,      \* scrollHeight - innerHeight
    scrollY,          \* window.scrollY
    body,             \* the overlay elements attached to document.body
    showClass,        \* the overlay elements carrying the class 'show'
    rafPending,       \* overlay elements with a requestAnimationFrame callback pending
    timers,           \* pending setTimeout callbacks, in the order they were set
    listeners,        \* trigger listeners installed on window / document
    keydownHandlers,  \* number of keydown listeners installed on document
    requests,         \* the POSTs to /api/popup/track, in the order they were issued
    \* the controller
    phase,            \* where init() stands
    config,           \* this.config
    isInitialized,    \* this.isInitialized
    currentPopup,     \* this.currentPopup
    displayedPopups,  \* this.displayedPopups
    scrollTriggered,  \* 'triggered' of setupScrollBasedTrigger's closure
    exitTriggered,    \* 'triggered' of setupExitIntentTrigger's closure
    startY,           \* 'startY' of setupTouchEvents' closure
    \* what has happened so far
    activeOutcome,    \* how the active lookup ended, and the popups it listed
    configOutcome,    \* how the config fetch ended, and the configs it carried
    configRequested,  \* the popup ids config requests were issued for
    installs,         \* the triggers installed, in order
    showCalls,        \* calls of showPopup
    retriggers,       \* times a trigger has fired again
    created,          \* overlay elements created and appended
    appendCount,      \* per popup id, the overlays appended for it
    sinceArmed,       \* ms passed since the trigger's timer was set, while it is pending
    sinceClose,       \* ms the overlay has stayed attached since the first close action
    scrollReached,    \* a scroll event found the configured threshold reached
    uncaught,         \* an exception escaped a handler of the controller
    exitFiredY,       \* clientY of the mouseleave events handleMouseLeave fired on
    \* the form of the overlay
    emailField,       \* value of the email input
    submitDisabled,   \* disabled of .lifescribe-popup-submit
    submitLabel,      \* textContent of .lifescribe-popup-submit
    formError,        \* text of the .lifescribe-form-error in the form, "" for none
    view,             \* what .lifescribe-popup-content holds: the template or the success message
    shownCode,        \* text of .lifescribe-discount-code
    submits,          \* the POSTs to /api/popup/submit, in the order they were issued
    submitCalls,      \* calls of handleFormSubmission
    sinceSuccess,     \* ms passed since a success response was handled, while its timer is pending
    \* the tab
    sessionStorage,   \* the item 'lifescribe_popup_session', 0 for none
    sessionId,        \* this.sessionId, 0 before the constructor has run
    configCarried,    \* the session ids the config requests carried
    pageLoads,        \* page loads of the tab that have ended
    emailVerdict,     \* what isValidEmail returned for the email input
    hostname,         \* window.location.hostname
    apiBase,          \* this.apiBase
    templateText,     \* the template handed to processTemplate
    templateConfig,   \* the config handed to processTemplate
    htmlTemplate      \* what processTemplate returned

browserVars == <<userAgent, scrollRange, scrollY, body, showClass, rafPending, timers,
                 listeners, keydownHandlers, requests>>
controllerVars == <<phase, config, isInitialized, currentPopup, displayedPopups,
                    scrollTriggered, exitTriggered, startY>>
historyVars == <<activeOutcome, configOutcome, configRequested, installs, showCalls,
                 retriggers, created, appendCount, sinceArmed, sinceClose,
                 scrollReached, uncaught>>
formVars == <<emailField, submitDisabled, submitLabel, formError, view, shownCode,
              submits, submitCalls, sinceSuccess>>
tabVars == <<sessionStorage, sessionId, configCarried, pageLoads, emailVerdict>>
\* what the steps of the page outside the form and the tab leave alone
utilVars == <<hostname, apiBase, templateText, templateConfig, htmlTemplate>>
restVars == <<formVars, tabVars, utilVars>>
vars == <<browserVars, controllerVars, historyVars, exitFiredY, formVars, tabVars,
          utilVars>>

\* ------------------------------------------------------- pure functions

\* getDeviceType: /iPad/ first, then /Mobile|Android|iPhone/
getDeviceType(ua) ==
    IF "iPad" \in ua THEN "tablet"
    ELSE IF ua \cap {"Mobile", "Android", "iPhone"} # {} THEN "mobile"
    ELSE "desktop"

\* getActivePopups without the test of data.success
getActivePopups_IgnoresSuccess(resp) ==
    IF resp.kind # "json" THEN <<>>
    ELSE IF resp.hasPopups THEN resp.popups ELSE <<>>

\* getActivePopups: the list init() goes on with
getActivePopups(resp) ==
    IF resp.kind # "json" THEN <<>>            \* fetch or json() rejected: catch
    ELSE IF resp.success
         THEN (IF resp.hasPopups THEN resp.popups ELSE <<>>)   \* data.popups || []
         ELSE <<>>

\* getPopupConfig without the test of data.success
getPopupConfig_IgnoresSuccess(resp) ==
    IF resp.kind # "json" THEN NullConfig ELSE resp.config

\* getPopupConfig: the config, or null
getPopupConfig(resp) ==
    IF resp.kind # "json" THEN NullConfig      \* fetch or json() rejected: catch
    ELSE IF resp.success THEN resp.config
         ELSE NullConfig

\* x || dflt for a number x: undefined and 0 are falsy
OrDefault(x, dflt) == IF x = Undefined \/ x = 0 THEN dflt ELSE x

\* setupTimeBasedTrigger with the default written in seconds
TimeDelay_Seconds(cfg) == OrDefault(cfg.trigger_value, 5)

\* setupTimeBasedTrigger: const delay = config.trigger_value || 5000
TimeDelay(cfg) == OrDefault(cfg.trigger_value, DefaultDelayMs)

\* setupScrollBasedTrigger: const threshold = config.trigger_value || 50
ScrollThreshold(cfg) == OrDefault(cfg.trigger_value, DefaultScrollPercent)

\* (scrollY / (scrollHeight - innerHeight)) * 100 >= threshold, in IEEE arithmetic:
\* 0/0 is NaN, which compares false; y/0 for y > 0 is Infinity
ScrollPercentReaches(y, range, threshold) ==
    IF range = 0 THEN y > 0
    ELSE y * 100 >= threshold * range

\* the strings SpecEmail draws the email input from
EmailStrings == UNION { [1..n -> Alphabet] : n \in 0..MaxEmailLen }

\* the class [^\s@] of emailRegex
NotSpaceAt(c) == c \notin {" ", "@"}

\* emailRegex = /^[^\s@]+@[^\s@]+\.[^\s@]+$/ as an automaton: the positions in the
\* pattern a match can stand at after reading c from position q
\*   0 before the local part     1 in the local part     2 after '@'
\*   3 in the part before '.'    4 after '.'              5 in the suffix
EmailStep(q, c) ==
    CASE q = 0 -> IF NotSpaceAt(c) THEN {1} ELSE {}
      [] q = 1 -> IF NotSpaceAt(c) THEN {1} ELSE IF c = "@" THEN {2} ELSE {}
      [] q = 2 -> IF NotSpaceAt(c) THEN {3} ELSE {}
      [] q = 3 -> (IF NotSpaceAt(c) THEN {3} ELSE {}) \cup (IF c = "." THEN {4} ELSE {})
      [] q = 4 -> IF NotSpaceAt(c) THEN {5} ELSE {}
      [] q = 5 -> IF NotSpaceAt(c) THEN {5} ELSE {}

\* the positions a match of the whole of s can end at, started from those in qs
RECURSIVE EmailRun(_, _)
EmailRun(qs, s) ==
    IF s = <<>> THEN qs
    ELSE EmailRun(UNION { EmailStep(q, Head(s)) : q \in qs }, Tail(s))

\* isValidEmail with the pattern /^[^\s@]+@[^\s@]+$/
isValidEmail_NoSuffix(email) == 3 \in EmailRun({0}, email)

\* isValidEmail: emailRegex.test(email), the pattern is anchored at both ends
isValidEmail(email) == 5 \in EmailRun({0}, email)

\* the methods with handleFormSubmission's statements outside a try block
TryBlocks_SubmitUnguarded ==
    {"init", "getActivePopups", "setupPopupTriggers", "getPopupConfig", "showPopup",
     "closePopup", "trackEvent"}

\* the methods whose statements that can throw stand in a try block with a catch
\* that ends the method
TryBlocks ==
    {"init", "getActivePopups", "setupPopupTriggers", "getPopupConfig", "showPopup",
     "handleFormSubmission", "closePopup", "trackEvent"}

\* an exception thrown in method reaches the caller of the handler
Escapes(method, thrown) == thrown /\ method \notin TryBlocks


\* ------------------------------------------------------------ the page
NoResponse == [kind |-> "none", success |-> FALSE, popups |-> 0, first |-> 0]

\* String.prototype.includes on a string of pieces
Includes(str, piece) == \E i \in 1..Len(str) : str[i] = piece

\* detectApiBase: hostname === 'localhost' || hostname.includes('127.0.0.1')
detectApiBase(host) ==
    IF host = <<"localhost">> \/ Includes(host, "127.0.0.1")
    THEN LocalDevOrigin
    ELSE PageOrigin(host)

\* value || dflt on a string: the default for a value that is not set or is ''
OrText(value, dflt) ==
    IF value.defined /\ value.text # <<>> THEN value.text ELSE dflt

\* the second argument of a replace call of processTemplate
Replacement(field, cfg) ==
    IF field = "id"
    THEN IF cfg[field].defined THEN cfg[field].text ELSE DefaultText(field)
    ELSE OrText(cfg[field], DefaultText(field))

\* String.prototype.replace reads its replacement string as a pattern: $& stands
\* for the matched text and $$ for one $
RECURSIVE Expand(_, _)
Expand(repl, matched) ==
    IF repl = <<>>
    THEN <<>>
    ELSE (CASE Head(repl) = "$&" -> <<matched>>
            [] Head(repl) = "$$" -> <<"$">>
            [] OTHER -> <<Head(repl)>>) \o Expand(Tail(repl), matched)

\* str.replace(/token/g, repl)
RECURSIVE ReplaceAll(_, _, _)
ReplaceAll(str, token, repl) ==
    IF str = <<>>
    THEN <<>>
    ELSE (IF Head(str) = token THEN Expand(repl, token) ELSE <<Head(str)>>)
         \o ReplaceAll(Tail(str), token, repl)

\* the chain of replace calls from the k-th one on
RECURSIVE ReplaceFrom(_, _, _)
ReplaceFrom(str, cfg, k) ==
    IF k > Len(Placeholders)
    THEN str
    ELSE ReplaceFrom(ReplaceAll(str, Placeholders[k][1],
                                Replacement(Placeholders[k][2], cfg)), cfg, k + 1)

\* processTemplate: '' for a template that is not set or empty, else the chain
processTemplate(template, cfg) ==
    IF ~template.defined \/ template.text = <<>>
    THEN <<>>
    ELSE ReplaceFrom(template.text, cfg, 1)

\* the page's host and the api base the constructor derived from it; no template
\* is looked at piece by piece
UtilInit ==
    /\ hostname = PageHost
    /\ apiBase = detectApiBase(hostname)
    /\ templateText = AbsentText
    /\ templateConfig = [f \in TemplateFields |-> AbsentText]
    /\ htmlTemplate = NotProcessed

\* the form as createPopupElement builds it from the template
FormInit ==
    /\ submitDisabled = FALSE
    /\ submitLabel = OriginalLabel
    /\ formError = ""
    /\ view = "form"
    /\ shownCode = ""
    /\ submits = <<>>
    /\ submitCalls = 0
    /\ sinceSuccess = Undefined

\* a document that has just been loaded, and the fields the constructor sets
FreshDocument ==
    /\ scrollY = 0
    /\ body = {}
    /\ showClass = {}
    /\ rafPending = {}
    /\ timers = <<>>
    /\ listeners = {}
    /\ keydownHandlers = 0
    /\ requests = <<>>
    /\ config = NullConfig
    /\ isInitialized = FALSE
    /\ currentPopup = NullPopup
    /\ displayedPopups = {}
    /\ scrollTriggered = FALSE
    /\ exitTriggered = FALSE
    /\ startY = 0
    /\ activeOutcome = NoResponse
    /\ configOutcome = NoResponse
    /\ configRequested = <<>>
    /\ installs = <<>>
    /\ showCalls = 0
    /\ retriggers = 0
    /\ created = 0
    /\ appendCount = [i \in PopupIds |-> 0]
    /\ sinceArmed = 0
    /\ sinceClose = Undefined
    /\ scrollReached = FALSE
    /\ uncaught = FALSE
    /\ exitFiredY = {}
    /\ FormInit
    /\ configCarried = <<>>

\* the controller as its constructor leaves it, and the page it is loaded in
ControllerInit ==
    /\ \E page \in PageLoads : userAgent = page[1] /\ scrollRange = page[2]
    /\ FreshDocument
    /\ phase = "loading"
    /\ pageLoads = 0

\* the page once the script has run in a tab whose session id is stored
Init ==
    /\ ControllerInit
    /\ emailField = <<>>
    /\ sessionStorage = 1
    /\ sessionId = 1
    /\ emailVerdict = "unchecked"
    /\ UtilInit

\* --------------------------------------------------------------- init()

\* the constructor calls init(), at once or on DOMContentLoaded; init() runs up to
\* the fetch of getActivePopups
DOMReady ==
    /\ phase = "loading"
    /\ phase' = "awaitActive"
    /\ UNCHANGED <<exitFiredY, restVars, browserVars, historyVars, config, isInitialized, currentPopup,
                   displayedPopups, scrollTriggered, exitTriggered, startY>>

\* init without the test of the list's length, reading the id as popup?.id
\* (0 stands for the undefined id)
initSelect_NoLengthCheck(activePopups) ==
    << IF Len(activePopups) > 0 THEN activePopups[1] ELSE 0 >>

\* init setting up the last entry of the list instead of activePopups[0]
initSelect_Last(activePopups) ==
    IF Len(activePopups) > 0 THEN <<activePopups[Len(activePopups)]>> ELSE <<>>

\* init: if (activePopups.length > 0) the first entry is set up
initSelect(activePopups) ==
    IF Len(activePopups) > 0 THEN <<activePopups[1]>> ELSE <<>>

\* the active lookup has ended: the rest of getActivePopups, then init() up to the
\* fetch of getPopupConfig, or to its end
ActiveResponse(resp) ==
    /\ phase = "awaitActive"
    /\ activeOutcome' = [kind |-> resp.kind, success |-> resp.success,
                         popups |-> Len(resp.popups),
                         first |-> IF resp.popups = <<>> THEN 0 ELSE resp.popups[1]]
    /\ LET selected == initSelect(getActivePopups(resp))
       IN  IF selected # <<>>
           THEN /\ configRequested' = Append(configRequested, selected[1])
                /\ configCarried' = Append(configCarried, sessionId)
                /\ phase' = "awaitConfig"
                /\ UNCHANGED isInitialized
           ELSE /\ isInitialized' = TRUE
                /\ phase' = "done"
                /\ UNCHANGED <<configRequested, configCarried>>
    /\ UNCHANGED <<exitFiredY, formVars, sessionStorage, sessionId, pageLoads, emailVerdict, utilVars, browserVars, config, currentPopup, displayedPopups, scrollTriggered,
                   exitTriggered, startY, configOutcome, installs, showCalls, retriggers,
                   created, appendCount, sinceArmed, sinceClose,
                   scrollReached>>
    /\ uncaught' = (uncaught \/ Escapes("getActivePopups", resp.kind # "json"))

\* setupExitIntentTrigger without the test of the device class
ExitIntentInstalls_AnyDevice(ua) == TRUE

\* setupExitIntentTrigger: the listener is added on the desktop device class only
ExitIntentInstalls(ua) == getDeviceType(ua) = "desktop"

\* setupPopupTriggers: the switch on config.trigger_type, and the setup it calls
setupPopupTriggers(cfg) ==
    CASE cfg.trigger_type = "time" ->
            /\ timers' = Append(timers, [kind |-> "time", remaining |-> TimeDelay(cfg)])
            /\ installs' = Append(installs, "time")
            /\ UNCHANGED listeners
      [] cfg.trigger_type = "scroll" ->
            /\ listeners' = listeners \cup {"scroll"}
            /\ installs' = Append(installs, "scroll")
            /\ UNCHANGED timers
      [] cfg.trigger_type = "exit-intent" ->
            IF ExitIntentInstalls(userAgent)
            THEN /\ listeners' = listeners \cup {"mouseleave"}
                 /\ installs' = Append(installs, "exit-intent")
                 /\ UNCHANGED timers
            ELSE UNCHANGED <<timers, listeners, installs>>
      [] cfg.trigger_type = "page-load" ->
            /\ timers' = Append(timers, [kind |-> "page-load",
                                         remaining |-> PageLoadDelayMs])
            /\ installs' = Append(installs, "page-load")
            /\ UNCHANGED listeners
      [] OTHER -> UNCHANGED <<timers, listeners, installs>>

\* the config fetch has ended: the rest of getPopupConfig and of setupPopupTriggers,
\* then the end of init()
ConfigResponse(resp) ==
    /\ phase = "awaitConfig"
    /\ resp.config # NullConfig => resp.config.id = configRequested[Len(configRequested)]
    /\ configOutcome' = [kind |-> resp.kind, success |-> resp.success,
                         popups |-> IF resp.config = NullConfig THEN 0 ELSE 1]
    /\ LET cfg == getPopupConfig(resp)
       IN  IF cfg = NullConfig
           THEN UNCHANGED <<config, timers, listeners, installs>>
           ELSE /\ config' = cfg
                /\ setupPopupTriggers(cfg)
    /\ isInitialized' = TRUE
    /\ phase' = "done"
    /\ UNCHANGED <<exitFiredY, restVars, userAgent, scrollRange, scrollY, body, showClass, rafPending,
                   keydownHandlers, requests, currentPopup, displayedPopups,
                   scrollTriggered, exitTriggered, startY, activeOutcome,
                   configRequested, showCalls, retriggers, created, appendCount,
                   sinceArmed, sinceClose, scrollReached>>
    /\ uncaught' = (uncaught \/ Escapes("getPopupConfig", resp.kind # "json"))


\* ---------------------------------------------------------- showPopup

\* what the handler that asked for a close saw of its event: the click's target,
\* the swipe's upward distance (kept with the request, not sent)
NoGesture == [target |-> "", distance |-> 0]

\* trackEvent posting the impression under another event name
Impression_AsView(id) == [event |-> "view", reason |-> "", popup |-> id,
                          session |-> sessionId, status |-> "pending",
                          seen |-> NoGesture]

Impression(id) == [event |-> "impression", reason |-> "", popup |-> id,
                   session |-> sessionId, status |-> "pending", seen |-> NoGesture]
CloseEvent(id, reason, seen) ==
    [event |-> "close", reason |-> reason, popup |-> id, session |-> sessionId,
     status |-> "pending", seen |-> seen]

\* the variables showPopup writes
showVars == <<showCalls, displayedPopups, currentPopup, created, body, rafPending,
              requests, appendCount>>

\* showPopup without displayedPopups.add(config.id)
showPopup_NoAdd(cfg) ==
    /\ showCalls' = showCalls + 1
    /\ IF cfg.id \in displayedPopups
       THEN UNCHANGED <<displayedPopups, currentPopup, created, body, rafPending,
                        requests, appendCount>>
       ELSE LET element == created + 1
            IN  /\ created' = element
                /\ body' = body \cup {element}
                /\ appendCount' = [appendCount EXCEPT ![cfg.id] = @ + 1]
                /\ displayedPopups' = displayedPopups
                /\ currentPopup' = [id |-> cfg.id, element |-> element]
                /\ rafPending' = rafPending \cup {element}
                /\ requests' = Append(requests, Impression(cfg.id))

\* showPopup without the check of displayedPopups
showPopup_NoDisplayedCheck(cfg) ==
    LET element == created + 1
    IN  /\ showCalls' = showCalls + 1
        /\ created' = element
        /\ body' = body \cup {element}
        /\ appendCount' = [appendCount EXCEPT ![cfg.id] = @ + 1]
        /\ displayedPopups' = displayedPopups \cup {cfg.id}
        /\ currentPopup' = [id |-> cfg.id, element |-> element]
        /\ rafPending' = rafPending \cup {element}
        /\ requests' = Append(requests, Impression(cfg.id))

\* showPopup(config), up to the await of trackEvent('impression'): the check of
\* displayedPopups, createPopupElement, appendChild, the currentPopup record, the
\* requestAnimationFrame and the POST that trackEvent issues
showPopup(cfg) ==
    /\ showCalls' = showCalls + 1
    /\ IF cfg.id \in displayedPopups
       THEN UNCHANGED <<displayedPopups, currentPopup, created, body, rafPending,
                        requests, appendCount>>
       ELSE LET element == created + 1
            IN  /\ created' = element
                /\ body' = body \cup {element}
                /\ appendCount' = [appendCount EXCEPT ![cfg.id] = @ + 1]
                /\ displayedPopups' = displayedPopups \cup {cfg.id}
                /\ currentPopup' = [id |-> cfg.id, element |-> element]
                /\ rafPending' = rafPending \cup {element}
                /\ requests' = Append(requests, Impression(cfg.id))

\* the requestAnimationFrame callback of showPopup: classList.add('show')
AnimationFrame(element) ==
    /\ element \in rafPending
    /\ rafPending' = rafPending \ {element}
    /\ showClass' = showClass \cup {element}
    /\ UNCHANGED <<exitFiredY, restVars, userAgent, scrollRange, scrollY, body, timers, listeners,
                   keydownHandlers, requests, controllerVars, historyVars>>

\* ---------------------------------------------------------- closePopup

\* closePopup reading the id as this.currentPopup?.id instead of returning without
\* a currentPopup (0 stands for the undefined id)
closePopup_NoEarlyReturn(reason, n, seen) ==
    /\ requests' = requests \o [i \in 1..n |-> CloseEvent(currentPopup.id, reason, seen)]
    /\ sinceClose' = IF sinceClose = Undefined /\ n > 0 THEN 0 ELSE sinceClose

\* closePopup(reason), called n times in one handler, up to the await of
\* trackEvent('close'): nothing without a currentPopup, else the POST is issued
closePopup(reason, n, seen) ==
    IF currentPopup = NullPopup
    THEN UNCHANGED <<requests, sinceClose>>
    ELSE /\ requests' = requests \o [i \in 1..n |-> CloseEvent(currentPopup.id, reason, seen)]
         /\ sinceClose' = IF sinceClose = Undefined /\ n > 0 THEN 0 ELSE sinceClose

\* the close events posted so far
CloseEvents == Cardinality({i \in 1..Len(requests) : requests[i].event = "close"})

\* what a close action of the user leaves alone
closeFrame == <<exitFiredY, restVars, userAgent, scrollRange, scrollY, body, showClass, rafPending, timers,
                listeners, phase, config, isInitialized, currentPopup, displayedPopups,
                scrollTriggered, exitTriggered, activeOutcome, configOutcome,
                configRequested, installs, showCalls, retriggers, created, appendCount,
                sinceArmed, scrollReached, uncaught>>

\* click on .lifescribe-popup-close: closePopup('close')
ClickClose ==
    /\ body # {}
    /\ "close" \in config.template
    /\ CloseEvents < MaxCloseActions
    /\ closePopup("close", 1, NoGesture)
    /\ UNCHANGED <<closeFrame, keydownHandlers, startY>>

\* the overlay's click handler closing on a click on any element
BackdropCloses_AnyTarget(target) == TRUE

\* the overlay's click handler: if (e.target === overlay)
BackdropCloses(target) == target = "overlay"

\* click on the overlay or on an element inside it, which the overlay's listener
\* receives: closePopup('overlay_click') when the overlay is the target
ClickOverlay(target) ==
    /\ body # {}
    /\ CloseEvents < MaxCloseActions
    /\ IF BackdropCloses(target)
       THEN closePopup("overlay_click", 1, [target |-> target, distance |-> 0])
       ELSE UNCHANGED <<requests, sinceClose>>
    /\ UNCHANGED <<closeFrame, keydownHandlers, startY>>

\* touchstart on the overlay (listener added on the mobile device class only)
TouchStart(y) ==
    /\ body # {}
    /\ getDeviceType(userAgent) = "mobile"
    /\ startY' = y
    /\ UNCHANGED <<exitFiredY, restVars, browserVars, historyVars, phase, config, isInitialized,
                   currentPopup, displayedPopups, scrollTriggered, exitTriggered>>

\* the touchmove handler closing from 100 px on
SwipeCloses_AtThreshold(diff) == diff >= SwipeThresholdPx

\* the touchmove handler: if (diff > 100)
SwipeCloses(diff) == diff > SwipeThresholdPx

\* touchmove on the overlay: closePopup('swipe_up') when startY - currentY > 100
TouchMove(y) ==
    /\ body # {}
    /\ getDeviceType(userAgent) = "mobile"
    /\ CloseEvents < MaxCloseActions
    /\ IF SwipeCloses(startY - y)
       THEN closePopup("swipe_up", 1, [target |-> "overlay", distance |-> startY - y])
       ELSE UNCHANGED <<requests, sinceClose>>
    /\ UNCHANGED <<closeFrame, keydownHandlers, startY>>

\* keydown of Escape: every handleKeydown installed runs; with a currentPopup it
\* calls closePopup('escape_key') and removes itself
KeydownEscape ==
    /\ keydownHandlers > 0
    /\ CloseEvents < MaxCloseActions
    /\ IF currentPopup # NullPopup
       THEN /\ closePopup("escape_key", keydownHandlers, NoGesture)
            /\ keydownHandlers' = 0
       ELSE UNCHANGED <<requests, sinceClose, keydownHandlers>>
    /\ UNCHANGED <<closeFrame, startY>>


\* ------------------------------------------------------------ trackEvent

\* the fetch of trackEvent settles: resolved, or rejected and caught in trackEvent,
\* which returns alike; the caller goes on after its await:
\*   showPopup: setupKeyboardHandlers()
\*   closePopup: classList.remove('show') and setTimeout(..., 300); without a
\*               currentPopup the TypeError is caught in closePopup
\* (the step stands for both outcomes of the fetch, so the rejection counts as thrown)
TrackSettle(i) ==
    /\ i \in 1..Len(requests)
    /\ requests[i].status = "pending"
    /\ requests' = [requests EXCEPT ![i].status = "settled"]
    /\ IF requests[i].event = "impression"
       THEN /\ keydownHandlers' = keydownHandlers + 1
            /\ UNCHANGED <<showClass, timers>>
       ELSE IF currentPopup = NullPopup
            THEN UNCHANGED <<keydownHandlers, showClass, timers>>
            ELSE /\ showClass' = showClass \ {currentPopup.element}
                 /\ timers' = Append(timers, [kind |-> "remove",
                                              remaining |-> ExitTransitionMs])
                 /\ UNCHANGED keydownHandlers
    /\ uncaught' = (uncaught
                     \/ Escapes("trackEvent", TRUE)
                     \/ Escapes("closePopup", requests[i].event = "close"
                                               /\ currentPopup = NullPopup))
    /\ UNCHANGED <<exitFiredY, restVars, userAgent, scrollRange, scrollY, body,
                   rafPending, listeners, controllerVars, activeOutcome, configOutcome,
                   configRequested, installs, showCalls, retriggers, created,
                   appendCount, sinceArmed, sinceClose, scrollReached>>

\* ---------------------------------------------------------------- timers

RemoveAt(seq, i) == SubSeq(seq, 1, i - 1) \o SubSeq(seq, i + 1, Len(seq))

\* the timer whose callback runs next: the first set among those that are due
DueTimer == CHOOSE i \in 1..Len(timers) :
                /\ timers[i].remaining = 0
                /\ \A j \in 1..(i - 1) : timers[j].remaining # 0

\* the timer callback of closePopup that also forgets the popup was displayed
removeOverlay_ForgetsDisplayed ==
    /\ body' = IF currentPopup # NullPopup THEN body \ {currentPopup.element}
               ELSE body
    /\ displayedPopups' = displayedPopups \ {currentPopup.id}
    /\ currentPopup' = NullPopup

\* the timer callback of closePopup clearing currentPopup without detaching the
\* overlay
removeOverlay_KeepsOverlay ==
    /\ body' = body
    /\ displayedPopups' = displayedPopups
    /\ currentPopup' = NullPopup

\* the timer callback of closePopup: the overlay is detached if it is attached,
\* and currentPopup cleared
removeOverlay ==
    /\ body' = IF currentPopup # NullPopup THEN body \ {currentPopup.element}
               ELSE body
    /\ displayedPopups' = displayedPopups
    /\ currentPopup' = NullPopup

\* a due timer's callback runs:
\*   time, page-load: showPopup(config)
\*   success (handleFormSubmission): closePopup('success')
\*   remove (closePopup): removeOverlay
FireTimer ==
    /\ \E i \in 1..Len(timers) : timers[i].remaining = 0
    /\ timers' = RemoveAt(timers, DueTimer)
    /\ CASE timers[DueTimer].kind \in {"time", "page-load"} ->
               showPopup(config) /\ UNCHANGED sinceClose
         [] timers[DueTimer].kind = "success" ->
               /\ closePopup("success", 1, NoGesture)
               /\ UNCHANGED <<showCalls, displayedPopups, currentPopup, created, body,
                              rafPending, appendCount>>
         [] OTHER ->
               /\ removeOverlay
               /\ UNCHANGED <<showCalls, created, rafPending, requests, appendCount,
                              sinceClose>>
    /\ UNCHANGED <<exitFiredY, restVars, userAgent, scrollRange, scrollY, showClass, listeners,
                   keydownHandlers, phase, config, isInitialized, scrollTriggered,
                   exitTriggered, startY, activeOutcome, configOutcome,
                   configRequested, installs, retriggers, sinceArmed,
                   scrollReached, uncaught>>

\* d ms pass: no timer is overrun
Tick(d) ==
    /\ d > 0
    /\ \A i \in 1..Len(timers) : timers[i].remaining >= d
    /\ timers' = [i \in 1..Len(timers) |->
                    [timers[i] EXCEPT !.remaining = @ - d]]
    /\ sinceArmed' = IF \E i \in 1..Len(timers) : timers[i].kind \in {"time", "page-load"}
                     THEN Min(sinceArmed + d, ElapsedCap) ELSE sinceArmed
    /\ sinceClose' = IF sinceClose # Undefined /\ body # {}
                     THEN Min(sinceClose + d, CloseCap) ELSE sinceClose
    /\ sinceSuccess' = IF \E i \in 1..Len(timers) : timers[i].kind = "success"
                       THEN Min(sinceSuccess + d, SuccessCap) ELSE sinceSuccess
    /\ UNCHANGED <<exitFiredY, emailField, submitDisabled, submitLabel, formError, view, shownCode, submits, submitCalls, tabVars, utilVars, userAgent, scrollRange, scrollY, body, showClass, rafPending,
                   listeners, keydownHandlers, requests, controllerVars,
                   activeOutcome, configOutcome, configRequested, installs, showCalls,
                   retriggers, created, appendCount, scrollReached,
                   uncaught>>

TickAmounts == TickSteps \cup {timers[i].remaining : i \in 1..Len(timers)}

\* ---------------------------------------------------- trigger listeners

\* the threshold the config asks for: its trigger_value, 50 when it has none
ConfiguredThreshold(cfg) ==
    IF cfg.trigger_value = Undefined THEN DefaultScrollPercent ELSE cfg.trigger_value

\* handleScroll fires: the flag is off and the percentage reaches the threshold
ScrollFires(y) ==
    /\ ~scrollTriggered
    /\ ScrollPercentReaches(y, scrollRange, ScrollThreshold(config))

\* a scroll event at vertical position y (a horizontal scroll leaves y as it is)
\* while the listener is installed: handleScroll runs
Scroll(y) ==
    /\ "scroll" \in listeners
    /\ y \in 0..scrollRange
    /\ scrollY' = y
    /\ scrollReached' = (scrollReached \/
          ScrollPercentReaches(y, scrollRange, ConfiguredThreshold(config)))
    /\ IF ScrollFires(y)
       THEN /\ scrollTriggered' = TRUE
            /\ showPopup(config)
            /\ listeners' = listeners \ {"scroll"}
       ELSE UNCHANGED <<scrollTriggered, listeners, showVars>>
    /\ UNCHANGED <<exitFiredY, restVars, userAgent, scrollRange, showClass, timers, keydownHandlers, phase,
                   config, isInitialized, exitTriggered, startY, activeOutcome,
                   configOutcome, configRequested, installs, retriggers,
                   sinceArmed, sinceClose, uncaught>>

\* handleMouseLeave without the test of clientY
MouseLeaveFires_AnyEdge(y) == ~exitTriggered

\* handleMouseLeave fires: the flag is off and the pointer left across the top
MouseLeaveFires(y) == ~exitTriggered /\ y <= 0

\* a mouseleave event of the document with clientY = y
MouseLeave(y) ==
    /\ "mouseleave" \in listeners
    /\ IF MouseLeaveFires(y)
       THEN /\ exitTriggered' = TRUE
            /\ exitFiredY' = exitFiredY \cup {y}
            /\ showPopup(config)
            /\ listeners' = listeners \ {"mouseleave"}
       ELSE UNCHANGED <<exitTriggered, exitFiredY, listeners, showVars>>
    /\ UNCHANGED <<restVars, userAgent, scrollRange, scrollY, showClass, timers, keydownHandlers,
                   phase, config, isInitialized, scrollTriggered, startY,
                   activeOutcome, configOutcome, configRequested, installs, retriggers,
                   sinceArmed, sinceClose, scrollReached, uncaught>>

\* a trigger that has fired fires again: showPopup is a public method of the
\* global window.lifescribePopups, and this is a call of it with the fetched config
\* after the installed trigger's call
Retrigger ==
    /\ config # NullConfig
    /\ showCalls > 0
    /\ retriggers < MaxRetriggers
    /\ retriggers' = retriggers + 1
    /\ showPopup(config)
    /\ UNCHANGED <<exitFiredY, restVars, userAgent, scrollRange, scrollY, showClass, timers, listeners,
                   keydownHandlers, phase, config, isInitialized, scrollTriggered,
                   exitTriggered, startY, activeOutcome, configOutcome,
                   configRequested, installs, sinceArmed, sinceClose,
                   scrollReached, uncaught>>

\* ------------------------------------------------- handleFormSubmission

\* showFormError that inserts nothing
showFormError_Silent(message) == formError

\* showFormError(message): the error in the form afterwards.  An error in the
\* document is removed; the new one is inserted only before the submit control of
\* the current popup's form
showFormError(message) ==
    IF currentPopup # NullPopup /\ {"form", "submit"} \subseteq config.template
       /\ view = "form"
    THEN message
    ELSE IF body # {} THEN "" ELSE formError

\* the loading state without the disabling of the control
LoadingState_LeftEnabled == [label |-> BusyLabel, disabled |-> FALSE]

\* the loading state of the submit control: 'Processing...', disabled
LoadingState == [label |-> BusyLabel, disabled |-> TRUE]

\* handleFormSubmission(form, config) on the popup's form with email in its input,
\* up to its return or to the await of the POST; without a submit control the
\* TypeError of submitButton.textContent is caught and no POST is issued
handleFormSubmission(email) ==
    /\ submitCalls' = submitCalls + 1
    /\ emailField' = email
    /\ CASE email = <<>> ->
               /\ formError' = showFormError(RequiredText)
               /\ UNCHANGED <<submitLabel, submitDisabled, submits, uncaught>>
         [] email # <<>> /\ ~isValidEmail(email) ->
               /\ formError' = showFormError(InvalidText)
               /\ UNCHANGED <<submitLabel, submitDisabled, submits, uncaught>>
         [] email # <<>> /\ isValidEmail(email) /\ "submit" \notin config.template ->
               /\ formError' = showFormError(NetworkText)
               /\ uncaught' = (uncaught \/ Escapes("handleFormSubmission", TRUE))
               /\ UNCHANGED <<submitLabel, submitDisabled, submits>>
         [] OTHER ->
               /\ submitLabel' = LoadingState.label
               /\ submitDisabled' = LoadingState.disabled
               /\ submits' = Append(submits,
                     [originalText |-> submitLabel, popup |-> config.id,
                      session |-> sessionId, outcome |-> "pending", error |-> "",
                      code |-> ""])
               /\ UNCHANGED <<formError, uncaught>>
    /\ UNCHANGED <<browserVars, controllerVars, activeOutcome, configOutcome,
                   configRequested, installs, showCalls, retriggers, created,
                   appendCount, sinceArmed, sinceClose, scrollReached, exitFiredY,
                   view, shownCode, sinceSuccess, tabVars, utilVars>>

\* a submit event of the form with email in its input: the browser sends none
\* through a disabled submit control, and the form is in the document while the
\* content holds the template; the listener calls handleFormSubmission
SubmitForm(email) ==
    /\ body # {}
    /\ "form" \in config.template
    /\ view = "form"
    /\ "submit" \in config.template => ~submitDisabled
    /\ submitCalls < MaxSubmits
    /\ handleFormSubmission(email)

\* the failure branch that shows its own text whatever the server sent
ErrorOrDefault_AlwaysGeneric(error) == FailedText

\* result.error || 'Submission failed. Please try again.'
ErrorOrDefault(error) == IF error = "" THEN FailedText ELSE error

\* the text `${discountCode}` puts into the success message
CodeText(code) == IF code = "" THEN "undefined" ELSE code

\* the success branch that schedules the close with the delay of the exit transition
SuccessTimer_Short == [kind |-> "success", remaining |-> ExitTransitionMs]

\* setTimeout(() => this.closePopup('success'), 3000)
SuccessTimer == [kind |-> "success", remaining |-> AutoCloseMs]

\* the POST of submission i has ended: the rest of handleFormSubmission
\*   fetch or json() rejected: the catch block
\*   result.success: showSuccessMessage and the timer of closePopup('success')
\*   else: showFormError(result.error || ...), the control as it was before
SubmitResponse(i, resp) ==
    /\ i \in 1..Len(submits)
    /\ submits[i].outcome = "pending"
    /\ CASE resp.kind # "json" ->
               /\ submits' = [submits EXCEPT ![i].outcome = "transport"]
               /\ formError' = showFormError(NetworkText)
               /\ submitLabel' = RetryLabel     \* dataset.originalText is never set
               /\ submitDisabled' = FALSE
               /\ UNCHANGED <<view, shownCode, timers, sinceSuccess>>
         [] resp.kind = "json" /\ resp.success ->
               /\ submits' = [submits EXCEPT ![i].outcome = "success",
                                             ![i].code = resp.discount_code]
               /\ IF currentPopup # NullPopup /\ "content" \in config.template
                  THEN /\ view' = "success"
                       /\ shownCode' = CodeText(resp.discount_code)
                       /\ formError' = ""
                  ELSE UNCHANGED <<view, shownCode, formError>>
               /\ timers' = Append(timers, SuccessTimer)
               /\ sinceSuccess' = 0
               /\ UNCHANGED <<submitLabel, submitDisabled>>
         [] OTHER ->
               /\ submits' = [submits EXCEPT ![i].outcome = "failure",
                                             ![i].error = resp.error]
               /\ formError' = showFormError(ErrorOrDefault(resp.error))
               /\ submitLabel' = submits[i].originalText
               /\ submitDisabled' = FALSE
               /\ UNCHANGED <<view, shownCode, timers, sinceSuccess>>
    /\ uncaught' = (uncaught \/ Escapes("handleFormSubmission", resp.kind # "json"))
    /\ UNCHANGED <<userAgent, scrollRange, scrollY, body, showClass, rafPending,
                   listeners, keydownHandlers, requests, controllerVars, activeOutcome,
                   configOutcome, configRequested, installs, showCalls, retriggers,
                   created, appendCount, sinceArmed, sinceClose, scrollReached,
                   exitFiredY, emailField, submitCalls, tabVars, utilVars>>

\* ------------------------------------------------------- specifications

Next ==
    \/ DOMReady
    \/ \E resp \in ActiveResponses : ActiveResponse(resp)
    \/ \E id \in PopupIds : \E resp \in ConfigResponses(id) : ConfigResponse(resp)
    \/ \E e \in rafPending : AnimationFrame(e)
    \/ \E i \in 1..Len(requests) : TrackSettle(i)
    \/ FireTimer
    \/ \E d \in TickAmounts : Tick(d)
    \/ \E y \in 0..scrollRange : Scroll(y)
    \/ \E y \in MouseYs : MouseLeave(y)
    \/ ClickClose
    \/ \E target \in ClickTargets : ClickOverlay(target)
    \/ \E y \in TouchStartYs : TouchStart(y)
    \/ \E y \in TouchMoveYs : TouchMove(y)
    \/ KeydownEscape

\* the page load, the hosting page making no call of its own
Spec == Init /\ [][Next]_vars

\* the page load with triggers that fire again
NextRetrigger == Next \/ Retrigger
SpecRetrigger == Init /\ [][NextRetrigger]_vars


\* the templates of the popups with a form: complete, without content container
\* and close control, without submit control
FormTemplates == { {"close", "form", "submit", "content"}, {"form", "submit"},
                   {"close", "form", "content"} }
\* the config fetch for a popup with a form that is shown on page load
FormConfigResponses ==
    [kind : {"json"}, success : {TRUE},
     config : [id : {2}, trigger_type : {"page-load"}, trigger_value : {Undefined},
               template : FormTemplates]]
    \cup [kind : {"neterr"}, success : {FALSE}, config : {NullConfig}]

\* the page load of a popup with a form, in a desktop browser: the user submits
\* the form and closes the popup with its close control
InitForm == Init /\ userAgent = {} /\ scrollRange = 0
NextForm ==
    \/ DOMReady
    \/ \E resp \in ActiveResponses : ActiveResponse(resp)
    \/ \E resp \in FormConfigResponses : ConfigResponse(resp)
    \/ \E e \in rafPending : AnimationFrame(e)
    \/ \E i \in 1..Len(requests) : TrackSettle(i)
    \/ FireTimer
    \/ \E d \in TickAmounts : Tick(d)
    \/ ClickClose
    \/ \E email \in FormEmails : SubmitForm(email)
    \/ \E i \in 1..Len(submits) : \E resp \in SubmitResponses : SubmitResponse(i, resp)
SpecForm == InitForm /\ [][NextForm]_vars

\* the page load of a popup shown on page load, on every device class, with every
\* close action of the user
NextClose ==
    \/ DOMReady
    \/ \E resp \in ActiveResponses : ActiveResponse(resp)
    \/ \E resp \in FormConfigResponses : ConfigResponse(resp)
    \/ \E e \in rafPending : AnimationFrame(e)
    \/ \E i \in 1..Len(requests) : TrackSettle(i)
    \/ FireTimer
    \/ \E d \in TickAmounts : Tick(d)
    \/ ClickClose
    \/ \E target \in ClickTargets : ClickOverlay(target)
    \/ \E y \in TouchStartYs : TouchStart(y)
    \/ \E y \in TouchMoveYs : TouchMove(y)
    \/ KeydownEscape
SpecClose == Init /\ [][NextClose]_vars

\* the same in a browser that keeps going: every fetch of trackEvent settles
\* (resolved or rejected), time passes, and a due timer's callback is run
Fairness ==
    /\ WF_vars(\E i \in 1..Len(requests) : TrackSettle(i))
    /\ WF_vars(\E d \in TickAmounts : Tick(d))
    /\ WF_vars(FireTimer)
SpecLive == SpecClose /\ Fairness

\* getOrCreateSessionId that generates an id whatever is stored
getOrCreateSessionId_AlwaysNew(stored, fresh) == [id |-> fresh, stored |-> fresh]

\* getOrCreateSessionId: the id returned and the item stored afterwards; stored
\* is what getItem returns (0 for null), fresh the id generated when it is needed
getOrCreateSessionId(stored, fresh) ==
    IF stored = 0 THEN [id |-> fresh, stored |-> fresh]
    ELSE [id |-> stored, stored |-> stored]

\* the script runs in a page of the tab: new LifeScribePopupSystem()
Construct(fresh) ==
    /\ phase = "unloaded"
    /\ sessionId' = getOrCreateSessionId(sessionStorage, fresh).id
    /\ sessionStorage' = getOrCreateSessionId(sessionStorage, fresh).stored
    /\ apiBase' = detectApiBase(hostname)
    /\ phase' = "loading"
    /\ UNCHANGED <<browserVars, config, isInitialized, currentPopup, displayedPopups,
                   scrollTriggered, exitTriggered, startY, historyVars, exitFiredY,
                   formVars, configCarried, pageLoads, emailVerdict, hostname, templateText,
                   templateConfig, htmlTemplate>>

\* the tab loads a page again: the document and the controller of the page before
\* are gone with their pending requests and timers, the tab's storage stays
Reload ==
    /\ phase # "unloaded"
    /\ pageLoads < MaxReloads
    /\ pageLoads' = pageLoads + 1
    \* FreshDocument holds of the new page
    /\ scrollY' = 0
    /\ body' = {}
    /\ showClass' = {}
    /\ rafPending' = {}
    /\ timers' = <<>>
    /\ listeners' = {}
    /\ keydownHandlers' = 0
    /\ requests' = <<>>
    /\ config' = NullConfig
    /\ isInitialized' = FALSE
    /\ currentPopup' = NullPopup
    /\ displayedPopups' = {}
    /\ scrollTriggered' = FALSE
    /\ exitTriggered' = FALSE
    /\ startY' = 0
    /\ activeOutcome' = NoResponse
    /\ configOutcome' = NoResponse
    /\ configRequested' = <<>>
    /\ installs' = <<>>
    /\ showCalls' = 0
    /\ retriggers' = 0
    /\ created' = 0
    /\ appendCount' = [i \in PopupIds |-> 0]
    /\ sinceArmed' = 0
    /\ sinceClose' = Undefined
    /\ scrollReached' = FALSE
    /\ uncaught' = FALSE
    /\ exitFiredY' = {}
    /\ configCarried' = <<>>
    /\ submitDisabled' = FALSE
    /\ submitLabel' = OriginalLabel
    /\ formError' = ""
    /\ view' = "form"
    /\ shownCode' = ""
    /\ submits' = <<>>
    /\ submitCalls' = 0
    /\ sinceSuccess' = Undefined
    /\ emailField' = <<>>
    /\ phase' = "unloaded"
    /\ sessionId' = 0
    /\ apiBase' = NoApiBase
    /\ UNCHANGED <<userAgent, scrollRange, sessionStorage, emailVerdict, hostname,
                   templateText, templateConfig, htmlTemplate>>

\* the config fetch of the popup with the complete template, shown on page load
SessionConfigResponses ==
    [kind : {"json"}, success : {TRUE},
     config : [id : {2}, trigger_type : {"page-load"}, trigger_value : {Undefined},
               template : { {"close", "form", "submit", "content"} }]]

\* the submit responses of SpecSession: a rejected fetch, a failure, a success
SessionSubmitResponses ==
    { [kind |-> "neterr", success |-> FALSE, error |-> "", discount_code |-> ""],
      [kind |-> "json", success |-> FALSE, error |-> "Email already used",
       discount_code |-> ""],
      [kind |-> "json", success |-> TRUE, error |-> "", discount_code |-> "SAVE10"] }
\* time passes up to the moment a timer is due
DueAmounts == {timers[i].remaining : i \in 1..Len(timers)}

\* a tab with or without a stored session id loads the page, the user submits the
\* form and closes the popup, and the tab loads the page again
InitSession ==
    /\ userAgent = {} /\ scrollRange = 0
    /\ FreshDocument
    /\ phase = "unloaded"
    /\ pageLoads = 0
    /\ emailField = <<>>
    /\ sessionStorage \in {0} \cup SessionTokens
    /\ sessionId = 0
    /\ emailVerdict = "unchecked"
    /\ hostname = PageHost
    /\ apiBase = NoApiBase
    /\ templateText = AbsentText
    /\ templateConfig = [f \in TemplateFields |-> AbsentText]
    /\ htmlTemplate = NotProcessed
NextSession ==
    \/ \E fresh \in SessionTokens : Construct(fresh)
    \/ Reload
    \/ DOMReady
    \/ \E resp \in ActiveResponses : ActiveResponse(resp)
    \/ \E resp \in SessionConfigResponses : ConfigResponse(resp)
    \/ \E e \in rafPending : AnimationFrame(e)
    \/ \E i \in 1..Len(requests) : TrackSettle(i)
    \/ FireTimer
    \/ \E d \in DueAmounts : Tick(d)
    \/ ClickClose
    \/ \E email \in FormEmails : SubmitForm(email)
    \/ \E i \in 1..Len(submits) : \E resp \in SessionSubmitResponses :
          SubmitResponse(i, resp)
SpecSession == InitSession /\ [][NextSession]_vars

\* isValidEmail applied to the value of the email input
ValidateEmail ==
    /\ emailVerdict = "unchecked"
    /\ emailVerdict' = IF isValidEmail(emailField) THEN "valid" ELSE "invalid"
    /\ UNCHANGED <<browserVars, controllerVars, historyVars, exitFiredY, formVars,
                   sessionStorage, sessionId, configCarried, pageLoads, utilVars>>

\* isValidEmail on every string of the alphabet up to MaxEmailLen characters
InitEmail ==
    /\ ControllerInit
    /\ emailField \in EmailStrings
    /\ sessionStorage = 1
    /\ sessionId = 1
    /\ emailVerdict = "unchecked"
    /\ UtilInit
NextEmail == ValidateEmail
SpecEmail == InitEmail /\ [][NextEmail]_vars


\* the constructor's this.apiBase = this.detectApiBase()
DetectApiBase ==
    /\ apiBase = NoApiBase
    /\ apiBase' = detectApiBase(hostname)
    /\ UNCHANGED <<browserVars, controllerVars, historyVars, exitFiredY, formVars,
                   tabVars, hostname, templateText, templateConfig, htmlTemplate>>

\* detectApiBase on every hostname of up to MaxHostLabels labels
InitApiBase ==
    /\ ControllerInit
    /\ emailField = <<>>
    /\ sessionStorage = 1
    /\ sessionId = 1
    /\ emailVerdict = "unchecked"
    /\ hostname \in Hostnames
    /\ apiBase = NoApiBase
    /\ templateText = AbsentText
    /\ templateConfig = [f \in TemplateFields |-> AbsentText]
    /\ htmlTemplate = NotProcessed
NextApiBase == DetectApiBase
SpecApiBase == InitApiBase /\ [][NextApiBase]_vars

\* createPopupElement's htmlTemplate = this.processTemplate(config.html_template, config)
ProcessTemplate ==
    /\ htmlTemplate = NotProcessed
    /\ htmlTemplate' = [done |-> TRUE,
                        text |-> processTemplate(templateText, templateConfig)]
    /\ UNCHANGED <<browserVars, controllerVars, historyVars, exitFiredY, formVars,
                   tabVars, hostname, apiBase, templateText, templateConfig>>

\* processTemplate on every template of up to MaxTemplatePieces pieces
InitTemplate ==
    /\ ControllerInit
    /\ emailField = <<>>
    /\ sessionStorage = 1
    /\ sessionId = 1
    /\ emailVerdict = "unchecked"
    /\ hostname = PageHost
    /\ apiBase = detectApiBase(hostname)
    /\ templateText \in TemplateTexts
    /\ templateConfig \in TemplateConfigs
    /\ htmlTemplate = NotProcessed
NextTemplate == ProcessTemplate
SpecTemplate == InitTemplate /\ [][NextTemplate]_vars


\* the test of the global functions without the check of currentPopup
GlobalGuard_InstanceOnly == TRUE

\* window.lifescribePopups && window.lifescribePopups.currentPopup
GlobalGuard == currentPopup # NullPopup

\* window.closeLifeScribePopup(), called by the hosting page
closeLifeScribePopup ==
    /\ CloseEvents < MaxCloseActions
    /\ IF GlobalGuard
       THEN closePopup("manual", 1, NoGesture)
       ELSE UNCHANGED <<requests, sinceClose>>
    /\ UNCHANGED <<closeFrame, keydownHandlers, startY>>

\* window.submitLifeScribeEmail(event), called by the hosting page at any moment
\* with a submit event of the popup's form: event.preventDefault(), then
\* handleFormSubmission(event.target, currentPopup.config) behind the test.  Past
\* the test without a currentPopup, the read of .config throws outside every try
submitLifeScribeEmail(email) ==
    /\ submitCalls < MaxSubmits
    /\ IF GlobalGuard
       THEN IF currentPopup = NullPopup
            THEN /\ uncaught' = TRUE
                 /\ UNCHANGED <<browserVars, controllerVars, activeOutcome,
                                configOutcome, configRequested, installs, showCalls,
                                retriggers, created, appendCount, sinceArmed,
                                sinceClose, scrollReached, exitFiredY, formVars,
                                tabVars, utilVars>>
            ELSE /\ "form" \in config.template
                 /\ view = "form"
                 /\ handleFormSubmission(email)
       ELSE UNCHANGED vars

\* the emails of the submit events handed to the global function: none, "a@a.aa"
GlobalEmails == { <<>>, <<"a", "@", "a", ".", "a", "a">> }

\* the page load of the popup with the complete template in a desktop browser, the
\* hosting page calling the global functions
NextGlobal ==
    \/ DOMReady
    \/ \E resp \in ActiveResponses : ActiveResponse(resp)
    \/ \E resp \in SessionConfigResponses : ConfigResponse(resp)
    \/ \E e \in rafPending : AnimationFrame(e)
    \/ \E i \in 1..Len(requests) : TrackSettle(i)
    \/ FireTimer
    \/ \E d \in DueAmounts : Tick(d)
    \/ closeLifeScribePopup
    \/ \E email \in GlobalEmails : submitLifeScribeEmail(email)
    \/ \E i \in 1..Len(submits) : \E resp \in SessionSubmitResponses :
          SubmitResponse(i, resp)
SpecGlobal == InitForm /\ [][NextGlobal]_vars


\* ================================================================ claims

\* the overlay of the current popup is in the document
Displayed == body # {}

\* C1: whatever triggers fire and fire again, showPopup appends at most one overlay
\* per popup id, and a call of it for an id that is in displayedPopups appends
\* nothing.
C1_AppendedAtMostOncePerId ==
    /\ [](\A id \in PopupIds : appendCount[id] <= 1)
    /\ [][\A id \in PopupIds :
            id \in displayedPopups => appendCount'[id] = appendCount[id]]_vars

\* a trigger has fired again for a popup that was appended before
C1_Witness ==
    /\ retriggers > 0
    /\ showCalls >= 2
    /\ \E id \in displayedPopups : appendCount[id] = 1

\* C2: at most one overlay is attached to the document, and an attached overlay is
\* the element of the one currentPopup record.
C2_AtMostOneOverlay ==
    /\ Cardinality(body) <= 1
    /\ body \subseteq {currentPopup.element}

\* a trigger has fired again while the overlay is in the document
C2_Witness ==
    /\ Displayed
    /\ currentPopup # NullPopup
    /\ retriggers > 0

\* C3: once a close action has started closePopup on a displayed popup, the overlay
\* stays in the document for at most the 300 ms of the exit transition.
C3_DetachedWithinExitDelay ==
    Displayed => sinceClose <= ExitTransitionMs

\* C4: no step of the user interface waits for a telemetry POST: while the
\* impression POST is pending the Escape handler is wired (until a close starts),
\* and while a close POST is pending the overlay's removal is scheduled.
C4_UiNeverWaitsForTelemetry ==
    \A i \in 1..Len(requests) :
        requests[i].status = "pending" =>
            /\ (requests[i].event = "impression" /\ CloseEvents = 0)
                   => keydownHandlers > 0
            /\ (requests[i].event = "close" /\ currentPopup # NullPopup)
                   => \E t \in 1..Len(timers) : timers[t].kind = "remove"

\* the active lookup failed: transport error, unparsable body or success:false
LookupFailed ==
    \/ activeOutcome.kind \in {"neterr", "parseerr"}
    \/ activeOutcome.kind = "json" /\ ~activeOutcome.success

\* the config fetch failed: transport error, unparsable body, success:false or no
\* config in the body
ConfigFailed ==
    \/ configOutcome.kind \in {"neterr", "parseerr"}
    \/ configOutcome.kind = "json" /\ ~configOutcome.success
    \/ configOutcome.kind = "json" /\ configOutcome.popups = 0

\* no trigger is installed and no overlay was ever appended
NothingArmed ==
    /\ installs = <<>>
    /\ timers = <<>>
    /\ listeners = {}
    /\ keydownHandlers = 0
    /\ config = NullConfig
    /\ created = 0
    /\ body = {}

\* init() ran to its end without an exception, or has not ended yet
InitUnbroken ==
    /\ ~uncaught
    /\ phase = "done" => isInitialized

\* C5: after a failed active lookup or a failed config fetch no trigger listener or
\* timer is installed, no overlay appears, and init() ends without an exception.
C5_FailedFetchArmsNothing ==
    (LookupFailed \/ ConfigFailed) => (NothingArmed /\ InitUnbroken)

\* the config fetch was answered success:false with a config in the body
C5_Witness ==
    /\ phase = "done"
    /\ configOutcome.kind = "json"
    /\ ~configOutcome.success
    /\ configOutcome.popups = 1

\* the active lookup succeeded and listed no popup
LookupEmpty ==
    /\ activeOutcome.kind = "json"
    /\ activeOutcome.success
    /\ activeOutcome.popups = 0

\* C6: after an active lookup that succeeds with an empty list no config request is
\* issued, nothing is armed or appended, and init() ends without an exception.
C6_EmptyListStaysIdle ==
    LookupEmpty =>
        /\ configRequested = <<>>
        /\ phase = "done"
        /\ NothingArmed
        /\ InitUnbroken

C6_Witness ==
    /\ LookupEmpty
    /\ isInitialized

\* a trigger is installed and has not fired
TriggerPending ==
    \/ listeners # {}
    \/ \E i \in 1..Len(timers) : timers[i].kind \in {"time", "page-load"}

\* the state of the spec's state machine the controller is in
Lifecycle ==
    IF Displayed THEN "Displayed"
    ELSE IF created > 0 THEN "Closed"
    ELSE IF TriggerPending THEN "Armed"
    ELSE IF phase \in {"awaitActive", "awaitConfig"} THEN "Fetching"
    ELSE "Idle"

\* the steps of the state machine; a fetch that arms nothing ends in the terminal Idle
LifecycleSteps ==
    { <<"Idle", "Fetching">>, <<"Fetching", "Idle">>, <<"Fetching", "Armed">>,
      <<"Armed", "Displayed">>, <<"Displayed", "Closed">> }

\* C7: the controller moves along Idle, Fetching, Armed, Displayed, Closed only
\* (Fetching falls back to a terminal Idle when nothing is armed): it is armed only
\* after the active lookup and the config fetch have both succeeded, it displays
\* only from Armed, and from Closed it moves nowhere.
C7_LifecycleOrder ==
    /\ [](Lifecycle \in {"Armed", "Displayed", "Closed"} =>
            /\ ~LookupFailed /\ activeOutcome.kind = "json"
            /\ ~ConfigFailed /\ configOutcome.kind = "json"
            /\ installs # <<>>)
    /\ [][/\ Lifecycle' # Lifecycle => <<Lifecycle, Lifecycle'>> \in LifecycleSteps
          /\ (Lifecycle = "Idle" /\ Lifecycle' = "Fetching") => phase = "loading"]_vars

\* the popup was displayed and closed, and its trigger has fired again since
C7_Witness ==
    /\ Lifecycle = "Closed"
    /\ retriggers > 0

\* C8 as claimed: once a config of one of the four trigger types is fetched, exactly
\* one trigger is installed.
C8_ExactlyOneTrigger ==
    config.trigger_type \in {"time", "scroll", "exit-intent", "page-load"}
        => Len(installs) = 1

\* the trigger types that install a listener or a timer in this browser
InstallingType(cfg) ==
    \/ cfg.trigger_type \in {"time", "scroll", "page-load"}
    \/ cfg.trigger_type = "exit-intent" /\ getDeviceType(userAgent) = "desktop"

\* C8 as amended: once a config is fetched, at most one trigger is installed: the one
\* of the config's trigger type for time, scroll, page-load and, on the desktop
\* device class, exit-intent; none for exit-intent on mobile and tablet and for a
\* trigger type the switch does not know.
C8_TriggerInstalledByType ==
    /\ config = NullConfig => installs = <<>>
    /\ config # NullConfig =>
          installs = IF InstallingType(config) THEN <<config.trigger_type>> ELSE <<>>
    /\ Len(installs) = 0 => (listeners = {} /\ timers = <<>>)

\* an exit-intent config was fetched on a device that is no desktop
C8_Witness ==
    /\ phase = "done"
    /\ config.trigger_type = "exit-intent"
    /\ getDeviceType(userAgent) # "desktop"

\* the delay the config asks for: its trigger_value, 5000 ms when it has none
ConfiguredDelay(cfg) ==
    IF cfg.trigger_value = Undefined THEN DefaultDelayMs ELSE cfg.trigger_value

\* C9: with a time trigger the overlay is appended no earlier than the configured
\* delay (5000 ms when none is configured) after the timer was set, and the timer's
\* callback runs once: showPopup is called once when the timer is gone, never twice.
C9_TimeTriggerNotEarly ==
    config.trigger_type = "time" =>
        /\ created > 0 => sinceArmed >= ConfiguredDelay(config)
        /\ showCalls <= 1
        /\ (\A i \in 1..Len(timers) : timers[i].kind # "time") => showCalls = 1

\* the overlay of a time trigger without a configured delay was appended
C9_Witness ==
    /\ config.trigger_type = "time"
    /\ config.trigger_value = Undefined
    /\ created = 1
    /\ sinceArmed = DefaultDelayMs

\* C10: with a scroll trigger, once a scroll event has found the scroll percentage
\* at or above the configured threshold (and the page is scrolled away from its top),
\* showPopup has been called exactly once.
C10_ScrollFiresAtThreshold ==
    (config.trigger_type = "scroll" /\ scrollReached /\ scrollY > 0) => showCalls = 1

\* C11: the mouseleave listener is installed on the desktop device class only; with
\* an exit-intent config on a mobile or tablet browser there is no listener and
\* showPopup is never called.  The installed handler fires only on a mouseleave
\* with clientY <= 0, at most once, and has removed itself once it has fired.
C11_ExitIntentDesktopOnce ==
    /\ "mouseleave" \in listeners =>
          getDeviceType(userAgent) = "desktop" /\ config.trigger_type = "exit-intent"
    /\ (config.trigger_type = "exit-intent" /\ getDeviceType(userAgent) # "desktop") =>
          ("mouseleave" \notin listeners /\ showCalls = 0 /\ ~Displayed)
    /\ \A y \in exitFiredY : y <= 0
    /\ config.trigger_type = "exit-intent" =>
          /\ showCalls <= 1
          /\ showCalls = 1 <=> exitFiredY # {}
    /\ exitFiredY # {} => "mouseleave" \notin listeners

\* the pointer has left a desktop page across the top edge and the popup was shown
C11_Witness ==
    /\ config.trigger_type = "exit-intent"
    /\ exitFiredY # {}
    /\ showCalls = 1
    /\ "mouseleave" \notin listeners

\* the shape local '@' domain '.' suffix: one '@' with a character before it, a '.'
\* after it with a character between the two and a character behind, and no space
EmailShape(s) ==
    /\ \A k \in 1..Len(s) : s[k] # " "
    /\ Cardinality({k \in 1..Len(s) : s[k] = "@"}) = 1
    /\ \E i, j \in 1..Len(s) :
          /\ s[i] = "@" /\ s[j] = "."
          /\ 1 < i /\ i + 1 < j /\ j < Len(s)

\* C12: isValidEmail(s) is true exactly when s has the shape local '@' domain '.'
\* suffix with non-empty parts and no whitespace, on every string over a letter,
\* '@', '.' and a space; it accepts "a@b.co" and rejects "a@b", "a b@c.com" and "".
C12_ValidExactlyOnShape ==
    /\ emailVerdict # "unchecked" => (emailVerdict = "valid" <=> EmailShape(emailField))
    /\ isValidEmail(<<"a", "@", "a", ".", "a", "a">>)
    /\ ~isValidEmail(<<"a", "@", "a">>)
    /\ ~isValidEmail(<<"a", " ", "a", "@", "a", ".", "a", "a", "a">>)
    /\ ~isValidEmail(<<>>)

\* isValidEmail has accepted letter '@' letter '.' letter letter
C12_Witness ==
    /\ emailVerdict = "valid"
    /\ emailField = <<"a", "@", "a", ".", "a", "a">>

\* C13: a call of handleFormSubmission with an empty email input, or one that has
\* not the shape of an email address, issues no POST and no other request, shows
\* the inline error of its case in a form that has its submit control, leaves that
\* control enabled with its label as it was, and leaves the overlay attached.
C13_InvalidEmailNoPost ==
    [][(submitCalls' = submitCalls + 1
        /\ (emailField' = <<>> \/ ~EmailShape(emailField')))
       => /\ submits' = submits
          /\ requests' = requests
          /\ timers' = timers
          /\ "submit" \in config.template =>
                /\ formError' = (IF emailField' = <<>> THEN RequiredText
                                 ELSE InvalidText)
                /\ ~submitDisabled'
                /\ submitLabel' = submitLabel
          /\ Displayed /\ body' = body
          /\ currentPopup' = currentPopup]_vars

\* an address without a suffix was submitted: the error is shown, nothing was posted
C13_Witness ==
    /\ submitCalls > 0
    /\ emailField = <<"a", "@", "a">>
    /\ formError = InvalidText
    /\ submits = <<>>
    /\ ~submitDisabled
    /\ Displayed

\* submission i ends in this step with outcome
Ends(i, outcome) ==
    /\ i \in 1..Len(submits)
    /\ submits[i].outcome = "pending"
    /\ submits'[i].outcome = outcome

C15_TransportFailureAsServerFailure ==
    [][\A i \in 1..Len(submits) : Ends(i, "transport") =>
          /\ currentPopup # NullPopup => formError' \in {FailedText, NetworkText}
          /\ ~submitDisabled'
          /\ submitLabel' = submits[i].originalText]_vars

\* timers of closePopup('success') that are pending
SuccessTimers == {k \in 1..Len(timers) : timers[k].kind = "success"}

\* C16: when a response with success true is handled, the content container of
\* the current popup shows the discount code the response carries, and
\* closePopup('success') is set to run in 3000 ms; it runs when exactly 3000 ms
\* have passed and posts the close event with reason 'success' for the current
\* popup.
C16_SuccessShowsCodeThenCloses ==
    /\ [][\A i \in 1..Len(submits) : Ends(i, "success") =>
             /\ (currentPopup # NullPopup /\ "content" \in config.template) =>
                   /\ view' = "success"
                   /\ submits'[i].code # "" => shownCode' = submits'[i].code
             /\ timers' = Append(timers, [kind |-> "success", remaining |-> 3000])
             /\ sinceSuccess' = 0
             /\ requests' = requests]_vars
    /\ [][(SuccessTimers # {} /\ Len(timers') < Len(timers)
            /\ \A k \in 1..Len(timers') : timers'[k].kind # "success")
           => /\ sinceSuccess = 3000
              /\ currentPopup # NullPopup =>
                    requests' = Append(requests, CloseEvent(currentPopup.id, "success", NoGesture))]_vars

\* the code was shown and the close event with reason 'success' was posted 3000 ms
\* after the response
C16_Witness ==
    /\ view = "success"
    /\ shownCode = "SAVE10"
    /\ sinceSuccess = 3000
    /\ \E k \in 1..Len(requests) :
          requests[k].event = "close" /\ requests[k].reason = "success"

C19_DisplayedOnlyGrows == [][displayedPopups \subseteq displayedPopups']_vars

\* the popup was closed and its overlay removed after a failed submission, and its
\* id is still in displayedPopups
C19_Witness ==
    /\ displayedPopups = {2}
    /\ currentPopup = NullPopup
    /\ ~Displayed
    /\ \E i \in 1..Len(submits) : submits[i].outcome \in {"failure", "transport"}

\* the session ids the requests of the page load carry
CarriedSessions ==
    {configCarried[k] : k \in 1..Len(configCarried)}
    \cup {requests[k].session : k \in 1..Len(requests)}
    \cup {submits[k].session : k \in 1..Len(submits)}

\* C20: the constructor takes the session id from the tab's storage when one is
\* stored, and generates and stores one only when none is; the stored id and the
\* controller's id never change afterwards, the config request and every track
\* and submit request of a page load carry that id, and the controller of a second
\* page load in the tab has the id of the first.
C20_SessionIdStable ==
    /\ [](sessionId # 0 => sessionId = sessionStorage)
    /\ [](CarriedSessions \subseteq {sessionId} \ {0})
    /\ [][sessionStorage # 0 => sessionStorage' = sessionStorage]_vars
    /\ [][(sessionId # 0 /\ sessionId' # 0) => sessionId' = sessionId]_vars

\* the second page load of a tab that had no id stored has issued a config
\* request, track requests and a submit request
C20_Witness ==
    /\ pageLoads = 1
    /\ sessionId # 0
    /\ configCarried # <<>>
    /\ requests # <<>>
    /\ submits # <<>>

\* C21: when the active list is not empty, one config request is issued in the page
\* load and it carries the id of the first entry of the list; no request otherwise
C21_ConfigForFirstEntryOnly ==
    LET nonEmpty == /\ activeOutcome.kind = "json"
                    /\ activeOutcome.success
                    /\ activeOutcome.popups > 0
    IN  /\ Len(configRequested) <= 1
        /\ nonEmpty => configRequested = <<activeOutcome.first>>
        /\ ~nonEmpty => configRequested = <<>>

\* a list of two entries has been answered and the popup of its first entry is shown
C21_Witness ==
    /\ activeOutcome.popups = 2
    /\ configRequested = <<2>>
    /\ currentPopup # NullPopup
    /\ currentPopup.id = 2

\* C22: detectApiBase returns the local development origin exactly for the hosts
\* localhost and 127.0.0.1, and the page's own origin for every other hostname
C22_LocalOriginExactlyOnLoopback ==
    apiBase # NoApiBase =>
        apiBase = IF hostname \in { <<"localhost">>, <<"127.0.0.1">> }
                  THEN LocalDevOrigin
                  ELSE PageOrigin(hostname)

\* the config field a known placeholder stands for
FieldOf(token) ==
    Placeholders[CHOOSE k \in 1..Len(Placeholders) : Placeholders[k][1] = token][2]

\* the text a placeholder is to be replaced with: the config's value, or the
\* token's default when the config has none (a value of '' counts as none)
ValueFor(token, cfg) ==
    IF cfg[FieldOf(token)].defined /\ cfg[FieldOf(token)].text # <<>>
    THEN cfg[FieldOf(token)].text
    ELSE DefaultText(FieldOf(token))

\* str with every known placeholder replaced with the text it stands for
RECURSIVE Substituted(_, _)
Substituted(str, cfg) ==
    IF str = <<>>
    THEN <<>>
    ELSE (IF Head(str) \in KnownPlaceholders
          THEN ValueFor(Head(str), cfg)
          ELSE <<Head(str)>>) \o Substituted(Tail(str), cfg)

\* C23: processTemplate replaces every occurrence of each known placeholder with
\* the config's value or the token's default, so that its output contains no known
\* placeholder; a missing template yields the empty string
C23_EveryPlaceholderReplaced ==
    htmlTemplate.done =>
        /\ ~templateText.defined => htmlTemplate.text = <<>>
        /\ templateText.defined =>
                htmlTemplate.text = Substituted(templateText.text, templateConfig)
        /\ \A i \in 1..Len(htmlTemplate.text) :
                htmlTemplate.text[i] \notin KnownPlaceholders

\* C24: in every state in which a popup is displayed (currentPopup set, overlay
\* attached) and no close has been requested yet, a keydown of Escape reaches a
\* handler that calls closePopup('escape_key'), also while the impression request
\* is pending
C24_EscapeClosesWheneverDisplayed ==
    (currentPopup # NullPopup /\ Displayed /\ CloseEvents = 0) => keydownHandlers > 0

\* the close events posted for the popup id
CloseEventsOf(id) ==
    Cardinality({i \in 1..Len(requests) :
                    requests[i].event = "close" /\ requests[i].popup = id})

\* C25: for each displayed popup at most one close event is posted, whatever close
\* actions occur before the overlay is detached
C25_AtMostOneCloseEvent ==
    \A id \in PopupIds : CloseEventsOf(id) <= 1

\* C26: once a close has been requested on a displayed popup, and the telemetry
\* requests settle, the overlay is eventually detached and currentPopup is null
C26_CloseEventuallyDetaches ==
    (CloseEvents > 0 /\ Displayed) ~> (~Displayed /\ currentPopup = NullPopup)

\* a close was requested, its telemetry request has settled and the overlay is gone
C26_Witness ==
    /\ CloseEvents > 0
    /\ \A i \in 1..Len(requests) : requests[i].status = "settled"
    /\ ~Displayed
    /\ currentPopup = NullPopup

\* the impression events posted for the popup id
ImpressionsOf(id) ==
    Cardinality({i \in 1..Len(requests) :
                    requests[i].event = "impression" /\ requests[i].popup = id})

\* C27: one impression event is posted per displayed popup; it is issued in the step
\* that appends the overlay, and before any close event or submit request of that
\* popup
C27_OneImpressionWithAppend ==
    /\ [](\A id \in PopupIds :
             ImpressionsOf(id) = IF id \in displayedPopups THEN 1 ELSE 0)
    /\ [](\A i \in 1..Len(requests) :
             requests[i].event = "close" =>
                 \E j \in 1..(i - 1) : /\ requests[j].event = "impression"
                                       /\ requests[j].popup = requests[i].popup)
    /\ [](\A k \in 1..Len(submits) : ImpressionsOf(submits[k].popup) = 1)
    /\ [][(body' \ body # {}) <=>
             (\E id \in PopupIds : ImpressionsOf(id)' = ImpressionsOf(id) + 1)]_vars

\* the popup's impression was posted, then its form was submitted and it was closed
C27_Witness ==
    /\ currentPopup # NullPopup
    /\ ImpressionsOf(currentPopup.id) = 1
    /\ submits # <<>>
    /\ CloseEvents > 0

\* C28: the default trigger value (5000 ms, 50 %) is used exactly when the config
\* carries no trigger value; every configured value, 0 included, is used as given:
\* a pending time trigger runs out the configured delay after it was set, and the
\* scroll handler compares with the configured threshold
C28_ConfiguredValueUsedAsGiven ==
    /\ config.trigger_type = "time" =>
          /\ TimeDelay(config) = ConfiguredDelay(config)
          /\ \A i \in 1..Len(timers) :
                 timers[i].kind = "time" =>
                     timers[i].remaining + sinceArmed = ConfiguredDelay(config)
    /\ config.trigger_type = "scroll" =>
          ScrollThreshold(config) = ConfiguredThreshold(config)

\* the close events the overlay's click handler has posted
BackdropCloseEvents ==
    {i \in 1..Len(requests) :
        requests[i].event = "close" /\ requests[i].reason = "overlay_click"}

\* C29: a click closes the popup with reason 'overlay_click' only when its target
\* is the overlay element itself, never when it is an element inside the overlay
C29_BackdropCloseOnlyOnOverlay ==
    \A i \in BackdropCloseEvents : requests[i].seen.target = "overlay"

\* a click on the backdrop has closed the popup: its close event is the only one,
\* and the overlay is gone
C29_Witness ==
    /\ BackdropCloseEvents # {}
    /\ CloseEvents = 1
    /\ ~Displayed
    /\ currentPopup = NullPopup

\* the close events the touchmove handler has posted
SwipeCloseEvents ==
    {i \in 1..Len(requests) :
        requests[i].event = "close" /\ requests[i].reason = "swipe_up"}

\* a touchmove at y would post a close event in this state
TouchMoveCloses(y) == ENABLED (TouchMove(y) /\ requests' # requests)

\* C30: swipe-to-close exists on the mobile device class only. There a touchmove
\* on a displayed popup closes it with reason 'swipe_up' exactly when the upward
\* distance startY - currentY is greater than 100 px; on tablet and desktop no
\* touchmove closes the popup
C30_SwipeClosesBeyondThresholdOnMobile ==
    /\ \A i \in SwipeCloseEvents :
          /\ requests[i].seen.distance > 100
          /\ getDeviceType(userAgent) = "mobile"
    /\ \A y \in TouchMoveYs :
          TouchMoveCloses(y) <=>
              /\ getDeviceType(userAgent) = "mobile"
              /\ currentPopup # NullPopup
              /\ CloseEvents < MaxCloseActions
              /\ startY - y > 100

\* a swipe of 101 px has closed the popup on a phone, after a touchmove at 100 px
\* from the start had not: its close event is the only one
C30_Witness ==
    /\ getDeviceType(userAgent) = "mobile"
    /\ \E i \in SwipeCloseEvents : requests[i].seen.distance = 101
    /\ CloseEvents = 1
    /\ ~Displayed

\* C31: whenever currentPopup is set its id is in displayedPopups; the check of
\* displayedPopups, the append of the overlay, the insertion into displayedPopups
\* and the creation of the currentPopup record are one step: an overlay is appended
\* exactly in the steps that insert an id that was not in the set and make it the
\* current popup's id
C31_CurrentPopupIsDisplayed ==
    /\ [](currentPopup # NullPopup => currentPopup.id \in displayedPopups)
    /\ [][/\ (body' \ body # {}) <=> (displayedPopups' # displayedPopups)
          /\ (body' \ body # {}) <=>
                (currentPopup' # currentPopup /\ currentPopup' # NullPopup)
          /\ (body' \ body # {}) =>
                /\ currentPopup'.id \notin displayedPopups
                /\ displayedPopups' = displayedPopups \cup {currentPopup'.id}
                /\ body' \ body = {currentPopup'.element}]_vars

\* the popup is current and in the set, and showPopup has been called for it again
C31_Witness ==
    /\ currentPopup # NullPopup
    /\ currentPopup.id \in displayedPopups
    /\ Displayed
    /\ retriggers > 0

\* the popup has been displayed and is fully closed
FullyClosed == displayedPopups # {} /\ ~Displayed /\ currentPopup = NullPopup

\* the step handles the response of a submit request
SubmitResponseStep ==
    \E i \in 1..Len(submits) :
        /\ Len(submits') = Len(submits)
        /\ submits[i].outcome = "pending"
        /\ submits'[i].outcome # "pending"

\* C32: a submit response that arrives after the popup has been fully closed changes
\* nothing in the document (no overlay, no success view, no error text), posts no
\* telemetry, displays nothing again and throws nothing; nor does anything that
\* follows from it (the timer of closePopup('success')): once the popup is fully
\* closed no request is posted and nothing is displayed any more
C32_LateSubmitResponseIsInert ==
    /\ [][(FullyClosed /\ SubmitResponseStep) =>
             /\ body' = body /\ showClass' = showClass
             /\ view' = view /\ shownCode' = shownCode /\ formError' = formError
             /\ requests' = requests
             /\ currentPopup' = currentPopup /\ displayedPopups' = displayedPopups
             /\ created' = created /\ showCalls' = showCalls
             /\ uncaught' = uncaught]_vars
    /\ [][FullyClosed =>
             /\ FullyClosed'
             /\ Len(requests') = Len(requests)
             /\ Len(submits') = Len(submits)
             /\ created' = created
             /\ ~uncaught']_vars

\* a success response has been handled after the popup was fully closed (the
\* content still holds the form), and the timer it set has run
C32_Witness ==
    /\ FullyClosed
    /\ "content" \in config.template
    /\ view = "form"
    /\ \E i \in 1..Len(submits) : submits[i].outcome = "success"
    /\ timers = <<>>
    /\ ~uncaught

\* the step posts a close event with reason 'manual'
ManualCloseStep ==
    /\ Len(requests') = Len(requests) + 1
    /\ requests'[Len(requests')].event = "close"
    /\ requests'[Len(requests')].reason = "manual"

\* a call of closeLifeScribePopup would change something in this state
GlobalCloseActs == ENABLED (closeLifeScribePopup /\ vars' # vars)

\* a call of submitLifeScribeEmail would change something in this state
GlobalSubmitActs ==
    \E email \in GlobalEmails : ENABLED (submitLifeScribeEmail(email) /\ vars' # vars)

\* C33: the global functions act only on a current popup.  closeLifeScribePopup
\* posts the close event of the current popup with reason 'manual';
\* submitLifeScribeEmail runs handleFormSubmission, whose POST carries the id of
\* the current popup's config.  Without a currentPopup a call of either changes
\* nothing: no request, no controller state, no exception
C33_GlobalsActOnCurrentPopupOnly ==
    /\ [](currentPopup = NullPopup => (~GlobalCloseActs /\ ~GlobalSubmitActs))
    /\ []((currentPopup # NullPopup /\ CloseEvents < MaxCloseActions) =>
             ENABLED (closeLifeScribePopup /\ ManualCloseStep))
    /\ [][ManualCloseStep =>
             /\ currentPopup # NullPopup
             /\ requests'[Len(requests')].popup = currentPopup.id]_vars
    /\ [][submitCalls' # submitCalls =>
             /\ currentPopup # NullPopup
             /\ Len(submits') > Len(submits) =>
                    submits'[Len(submits')].popup = currentPopup.id]_vars
    /\ []~uncaught

\* the hosting page has submitted the form and closed the popup through the global
\* functions, and the popup is gone
C33_Witness ==
    /\ \E i \in 1..Len(requests) :
          requests[i].event = "close" /\ requests[i].reason = "manual"
    /\ submits # <<>>
    /\ submits[1].popup = 2
    /\ displayedPopups = {2}
    /\ currentPopup = NullPopup
    /\ ~Displayed

====
